---- MODULE Spec2Model ----
(***************************************************************************)
(* A model of build.py, the helper that builds the macOS versions of the  *)
(* ZDoom family of source ports: the Target registry, the construction of *)
(* a Builder from its command line, and the five stages of Builder.run.    *)
(*                                                                         *)
(* A path is a sequence of one-character strings, so that len(), slicing  *)
(* and lstrip() act on it as they do in Python.  Other command-line text   *)
(* is a sequence of string fragments whose concatenation is the text.      *)
(***************************************************************************)
EXTENDS Naturals, Sequences, FiniteSets, TLC

VARIABLES
    deps,        \* the entries of <root>/deps (read-only input of the program)
    cmakelists,  \* the lines of <source-path>/CMakeLists.txt (input of --source-path)
    prefix,      \* the tree at <root>/prefix
    dirs,        \* the other directories that exist, by normalised path
    files,       \* the other files and symbolic links that exist
    builder,     \* the fields of the Builder of the current invocation
    pc,          \* the position of the current invocation in Builder.run
    log,         \* the commands and filesystem mutations of the current invocation
    runs,        \* the number of invocations started
    at_start,    \* history: the filesystem as the current invocation found it
    declared     \* history: what the lines of cmakelists were written from

vars == <<deps, cmakelists, prefix, dirs, files, builder, pc, log, runs, at_start, declared>>

(***************************************************************************)
(* Bounds of the model.                                                    *)
(***************************************************************************)
\* the number of invocations of build.py in one behaviour
MaxRuns == 2
\* the number of lines of a CMakeLists.txt with more than one line
MaxLines == 3

None == <<"<None>">>

(***************************************************************************)
(* Text.                                                                   *)
(***************************************************************************)
Sep == "/"

\* s[pos:] of Python, pos counted from 0
Slice(s, pos) == IF pos >= Len(s) THEN <<>> ELSE SubSeq(s, pos + 1, Len(s))

\* s.lstrip("/")
RECURSIVE LStripSep(_)
LStripSep(s) == IF s # <<>> /\ Head(s) = Sep THEN LStripSep(Tail(s)) ELSE s

\* the path the kernel resolves: repeated separators collapse, a trailing one goes
RECURSIVE Collapse(_)
Collapse(s) ==
    IF Len(s) < 2 THEN s
    ELSE IF s[1] = Sep /\ s[2] = Sep THEN Collapse(Tail(s))
    ELSE <<s[1]>> \o Collapse(Tail(s))

Norm(p) ==
    LET c == IF \E i \in 1..(Len(p) - 1) : p[i] = Sep /\ p[i + 1] = Sep THEN Collapse(p) ELSE p
    IN  IF Len(c) > 1 /\ c[Len(c)] = Sep THEN SubSeq(c, 1, Len(c) - 1) ELSE c

IsPrefixOf(p, s) == Len(p) <= Len(s) /\ SubSeq(s, 1, Len(p)) = p

LowerLetters ==
    <<"a", "b", "c", "d", "e", "f", "g", "h", "i", "j", "k", "l", "m",
      "n", "o", "p", "q", "r", "s", "t", "u", "v", "w", "x", "y", "z">>

UpperLetters ==
    <<"A", "B", "C", "D", "E", "F", "G", "H", "I", "J", "K", "L", "M",
      "N", "O", "P", "Q", "R", "S", "T", "U", "V", "W", "X", "Y", "Z">>

Digits == {"0", "1", "2", "3", "4", "5", "6", "7", "8", "9"}

\* str.lower() of one character
LowerChar(c) ==
    IF \E i \in 1..26 : UpperLetters[i] = c
    THEN LowerLetters[CHOOSE i \in 1..26 : UpperLetters[i] = c]
    ELSE c

\* str.upper() of one character
UpperChar(c) ==
    IF \E i \in 1..26 : LowerLetters[i] = c
    THEN UpperLetters[CHOOSE i \in 1..26 : LowerLetters[i] = c]
    ELSE c

\* str.lower()
Lower(s) == [i \in 1..Len(s) |-> LowerChar(s[i])]

(***************************************************************************)
(* Names.                                                                  *)
(***************************************************************************)
gzdoom == <<"g", "z", "d", "o", "o", "m">>
qzdoom == <<"q", "z", "d", "o", "o", "m">>
lzdoom == <<"l", "z", "d", "o", "o", "m">>
raze == <<"r", "a", "z", "e">>

s_deps == <<"d", "e", "p", "s">>
s_prefix == <<"p", "r", "e", "f", "i", "x">>
s_include == <<"i", "n", "c", "l", "u", "d", "e">>
s_lib == <<"l", "i", "b">>
s_source == <<"s", "o", "u", "r", "c", "e">>
s_build == <<"b", "u", "i", "l", "d">>
s_xcode == <<"x", "c", "o", "d", "e">>
s_make == <<"m", "a", "k", "e">>
s_Debug == <<"D", "e", "b", "u", "g">>
s_app_macos ==
    <<".", "a", "p", "p", "/", "C", "o", "n", "t", "e", "n", "t", "s", "/", "M", "a", "c", "O", "S">>
s_Contents == <<"C", "o", "n", "t", "e", "n", "t", "s">>
s_MacOS == <<"M", "a", "c", "O", "S">>
s_app == <<".", "a", "p", "p">>
s_tar_bz2 == <<".", "t", "a", "r", ".", "b", "z", "2">>
s_xcodeproj == <<".", "x", "c", "o", "d", "e", "p", "r", "o", "j">>
molten_lib ==
    <<"l", "i", "b", "M", "o", "l", "t", "e", "n", "V", "K", ".", "d", "y", "l", "i", "b">>

\* os.path.dirname(os.path.abspath(__file__)) + os.sep, for a checkout at /r
RootPath == <<"/", "r", "/">>

(***************************************************************************)
(* class Target.                                                           *)
(***************************************************************************)
\* Target.get_target_names: the members of Target named _setup_<name>
TargetNames == {gzdoom, qzdoom, lzdoom, raze}

\* Target.__init__
NewTarget(name) ==
    [name |-> name, url |-> "None", cmake_options |-> <<>>, post_build |-> "None"]

\* Target.create_targets: the registry, which answers targets[name]
HasTarget(name) == name \in TargetNames

extra_libs ==
    <<"mpg123", "fluidsynth", "instpatch-1.0", "glib-2.0", "gobject-2.0", "intl", "ffi",
      "pcre", "sndfile", "ogg", "vorbis", "vorbisenc", "FLAC", "opus">>

\* the loop of _assign_zdoom_raze_cmake_options over extra_libs[1..n]
RECURSIVE LinkerArgs(_, _)
LinkerArgs(lib_path, n) ==
    IF n = 0
    THEN <<"-framework AudioUnit -framework AudioToolbox -framework Carbon ",
           "-framework CoreAudio -framework CoreMIDI -framework CoreVideo -liconv">>
    ELSE LinkerArgs(lib_path, n - 1) \o <<" ">> \o lib_path \o <<"lib", extra_libs[n], ".a">>

\* the options _assign_zdoom_raze_cmake_options assigns, in the order assigned
OptionsFor(include_path, lib_path) ==
    << <<"CMAKE_EXE_LINKER_FLAGS", LinkerArgs(lib_path, Len(extra_libs))>>,
       <<"FORCE_INTERNAL_ZLIB", <<"YES">> >>,
       <<"FORCE_INTERNAL_BZIP2", <<"YES">> >>,
       <<"PK3_QUIET_ZIPDIR", <<"YES">> >>,
       <<"DYN_OPENAL", <<"NO">> >>,
       <<"OPENAL_INCLUDE_DIR", include_path>>,
       <<"OPENAL_LIBRARY", lib_path \o <<"libopenal.a">> >> >>

\* the paths Builder.__init__ derives from the place of build.py
PrefixPath == RootPath \o s_prefix \o <<Sep>>
IncludePath == PrefixPath \o s_include \o <<Sep>>
LibPath == PrefixPath \o s_lib \o <<Sep>>

\* OptionsFor at the paths of this checkout, computed once
RootOptions == OptionsFor(IncludePath, LibPath)

\* Target._assign_zdoom_raze_cmake_options
ZDoomRazeCMakeOptions(b) ==
    IF b.include_path = IncludePath /\ b.lib_path = LibPath
    THEN RootOptions
    ELSE OptionsFor(b.include_path, b.lib_path)

\* Target.setup, which calls _setup_<name>
SetupTarget(t, b) ==
    LET opts == t.cmake_options \o ZDoomRazeCMakeOptions(b)
    IN  CASE t.name = gzdoom ->
               [t EXCEPT !.url = "https://github.com/coelckers/gzdoom.git",
                         !.post_build = "_copy_moltenvk", !.cmake_options = opts]
          [] t.name = qzdoom ->
               [t EXCEPT !.url = "https://github.com/madame-rachelle/qzdoom.git",
                         !.post_build = "_copy_moltenvk", !.cmake_options = opts]
          [] t.name = lzdoom ->
               [t EXCEPT !.url = "https://github.com/drfrag666/gzdoom.git",
                         !.cmake_options = opts]
          [] t.name = raze ->
               [t EXCEPT !.url = "https://github.com/coelckers/Raze.git",
                         !.cmake_options = opts]

(***************************************************************************)
(* Builder._detect_target: the scan of CMakeLists.txt.                     *)
(***************************************************************************)
\* \w and \s of the regular expression
IsWordChar(c) ==
    \/ \E i \in 1..26 : LowerLetters[i] = c \/ UpperLetters[i] = c
    \/ c \in Digits
    \/ c = "_"

IsSpaceChar(c) == c \in {" ", "\t", "\n", "\r"}

\* the first position from i on that is no white space (Len + 1 at the end)
RECURSIVE SkipSpace(_, _)
SkipSpace(line, i) ==
    IF i <= Len(line) /\ IsSpaceChar(line[i]) THEN SkipSpace(line, i + 1) ELSE i

\* the first position from i on that is no word character
RECURSIVE SkipWord(_, _)
SkipWord(line, i) ==
    IF i <= Len(line) /\ IsWordChar(line[i]) THEN SkipWord(line, i + 1) ELSE i

s_project == <<"p", "r", "o", "j", "e", "c", "t">>

NoMatch == <<FALSE, <<>> >>

\* \s*\) after the group that spans first..last-1; the group is not empty
MatchClose(line, first, last, close) ==
    IF last > first /\ close <= Len(line) /\ line[close] = ")"
    THEN <<TRUE, SubSeq(line, first, last - 1)>>
    ELSE NoMatch

\* (\w+) from position first on
MatchWord(line, first, last) == MatchClose(line, first, last, SkipSpace(line, last))

\* \(\s* at position open
MatchOpen(line, open) ==
    IF open <= Len(line) /\ line[open] = "("
    THEN MatchWord(line, SkipSpace(line, open + 1),
                   SkipWord(line, SkipSpace(line, open + 1)))
    ELSE NoMatch

\* project\s*\(\s*(\w+)\s*\) matched at position i, ignoring case:
\* <<TRUE, group 1>> or <<FALSE, <<>> >>
MatchAt(line, i) ==
    IF i + 6 <= Len(line) /\ Lower(SubSeq(line, i, i + 6)) = s_project
    THEN MatchOpen(line, SkipSpace(line, i + 7))
    ELSE NoMatch

\* the positions of a line where the pattern matches
Matches(line) == {i \in 1..Len(line) : MatchAt(line, i)[1]}

\* the match at the least of the positions m
LeftmostMatch(line, m) ==
    IF m = {} THEN NoMatch ELSE MatchAt(line, CHOOSE i \in m : \A j \in m : i <= j)

\* re.search: the leftmost match in the line
Search(line) == LeftmostMatch(line, Matches(line))

\* what the loop body does with the match of one line: the lower-cased group
\* and break, or the result of the lines that follow
NameOrNext(match, next) == IF match[1] THEN Lower(match[2]) ELSE next

\* the last matching line decides: the result of the lines that follow wins
NameOrLast(match, next) == IF next # None THEN next ELSE NameOrNext(match, None)

\* ProjectName without the break: the last matching line decides
RECURSIVE ProjectNameOfLastMatch(_)
ProjectNameOfLastMatch(lines) ==
    IF lines = <<>> THEN None
    ELSE NameOrLast(Search(Head(lines)), ProjectNameOfLastMatch(Tail(lines)))

\* the loop over readlines(): the lower-cased name of the first matching line,
\* or None
RECURSIVE ProjectName(_)
ProjectName(lines) ==
    IF lines = <<>> THEN None
    ELSE NameOrNext(Search(Head(lines)), ProjectName(Tail(lines)))

\* the assertion on project_name and the lookup in the registry
TargetOfProject(project_name) ==
    IF project_name # None /\ project_name # <<>> /\ HasTarget(project_name)
    THEN <<TRUE, NewTarget(project_name)>>
    ELSE <<FALSE, NewTarget(None)>>

\* _detect_target: <<TRUE, target>>, or <<FALSE, ...>> when the assertion or the
\* lookup in the registry fails
DetectTarget(lines) == TargetOfProject(ProjectName(lines))

(***************************************************************************)
(* Builder.__init__.                                                       *)
(***************************************************************************)
\* the truth value of an optional string argument
Truthy(s) == s # None /\ s # <<>>

\* the attributes __init__ sets before it looks at the target
BuilderFields(args) ==
    [root_path |-> RootPath,
     deps_path |-> RootPath \o s_deps \o <<Sep>>,
     prefix_path |-> PrefixPath,
     include_path |-> IncludePath,
     lib_path |-> LibPath,
     xcode |-> args.xcode,
     checkout_commit |-> args.checkout_commit,
     generate |-> ~args.skip_generate,
     rebuild_prefix |-> args.rebuild_prefix,
     build_path |-> args.build_path,
     sdk_path |-> args.sdk_path,
     create_package |-> args.create_package,
     source_path |-> None,
     target |-> NewTarget(None)]

\* the target named by --target with its source below source/, else the
\* target detected in --source-path
WithTarget(b, args, detected) ==
    IF Truthy(args.target)
    THEN [b EXCEPT !.target = NewTarget(args.target),
                   !.source_path = b.root_path \o s_source \o <<Sep>> \o args.target]
    ELSE [b EXCEPT !.target = detected[2], !.source_path = args.source_path]

\* the default build path, build/<target>/<xcode or make>
WithBuildPath(b) ==
    IF ~Truthy(b.build_path)
    THEN [b EXCEPT !.build_path =
              b.root_path \o s_build \o <<Sep>> \o b.target.name \o <<Sep>>
                  \o (IF b.xcode THEN s_xcode ELSE s_make)]
    ELSE b

\* os.sep appended to the source and the build path
WithSeparators(b) == [b EXCEPT !.source_path = @ \o <<Sep>>, !.build_path = @ \o <<Sep>>]

\* self.target.setup(self)
WithSetup(b) == [b EXCEPT !.target = SetupTarget(b.target, b)]

\* __init__ given what _detect_target returns when it is called
ConstructWith(args, detected) ==
    IF Truthy(args.target) \/ (Truthy(args.source_path) /\ detected[1])
    THEN <<TRUE, WithSetup(WithSeparators(WithBuildPath(
                     WithTarget(BuilderFields(args), args, detected))))>>
    ELSE <<FALSE, BuilderFields(args)>>

\* Builder.__init__ on the parsed arguments, lines being what CMakeLists.txt
\* holds: <<TRUE, the builder>>, or <<FALSE, ...>> when construction raises
Construct(args, lines) == ConstructWith(args, DetectTarget(lines))

(***************************************************************************)
(* The filesystem.                                                         *)
(***************************************************************************)
\* os.path.exists of a directory path
DirExists(p) == Norm(p) \in dirs

\* the entry at a path, as lstat sees it
HasEntry(fs, p) == \E f \in fs : f.path = Norm(p)
EntryAt(fs, p) == CHOOSE f \in fs : f.path = Norm(p)

\* whether <prefix>/lib/<name> is there (a link into deps, which is never dangling)
PrefixLibHas(pf, name) == pf.exists /\ \E l \in pf.lib : l.name = name

\* os.path.exists of a file path: a symbolic link is followed
FileExists(fs, pf, b, p) ==
    /\ HasEntry(fs, p)
    /\ \/ EntryAt(fs, p).kind # "link"
       \/ /\ IsPrefixOf(b.lib_path, EntryAt(fs, p).target)
          /\ PrefixLibHas(pf, Slice(EntryAt(fs, p).target, Len(b.lib_path)))

\* the directories os.makedirs(p) makes below the existing directory base
DirsBelow(base, p) ==
    {Norm(SubSeq(p, 1, i)) : i \in {j \in (Len(base) + 1)..Len(p) : p[j] = Sep \/ j = Len(p)}}

Event(op, args, cwd, ok) == [op |-> op, args |-> args, cwd |-> cwd, links |-> {}, ok |-> ok]

\* AfterCall as subprocess.call would leave it: the exit status is not looked at
AfterCallUnchecked(ok, next) == next

\* where run() is after a call that raises when it fails: subprocess.check_call
\* and check_output on a non-zero exit, os.symlink and shutil.copy on an OSError
AfterCall(ok, next) == IF ok THEN next ELSE "failed"

(***************************************************************************)
(* Builder._create_prefix_directory.                                       *)
(***************************************************************************)
\* every enumeration of a finite set: os.scandir gives no order
RECURSIVE Orders(_)
Orders(S) ==
    IF S = {} THEN {<<>>}
    ELSE UNION {{<<x>> \o rest : rest \in Orders(S \ {x})} : x \in S}

\* DepLinks without the test that the dependency has a lib directory
DepLinksWithoutLibTest(dep) ==
    IF ~dep.is_dir \/ ~dep.has_include THEN {<<>>}
    ELSE {inc \o lib :
            inc \in Orders({[into |-> "include", dep |-> dep.name, name |-> n] : n \in dep.include}),
            lib \in Orders({[into |-> "lib", dep |-> dep.name, name |-> n] : n \in dep.lib})}

\* the os.symlink calls one dependency gives rise to (lines 197-207), in each
\* order scandir may produce
DepLinks(dep) ==
    IF ~dep.is_dir \/ ~dep.has_include \/ ~dep.has_lib THEN {<<>>}
    ELSE {inc \o lib :
            inc \in Orders({[into |-> "include", dep |-> dep.name, name |-> n] : n \in dep.include}),
            lib \in Orders({[into |-> "lib", dep |-> dep.name, name |-> n] : n \in dep.lib})}

\* the os.symlink calls of the loop over os.scandir(deps_path)
RECURSIVE ScanLinks(_)
ScanLinks(ds) ==
    IF ds = {} THEN {<<>>}
    ELSE UNION {{first \o rest : first \in DepLinks(d), rest \in ScanLinks(ds \ {d})} : d \in ds}

\* os.symlink, one call after the other; it raises when the name is taken
RECURSIVE MakeLinks(_, _)
MakeLinks(links, made) ==
    IF links = <<>> THEN [made |-> made, ok |-> TRUE]
    ELSE IF \E l \in made : l.into = Head(links).into /\ l.name = Head(links).name
         THEN [made |-> made, ok |-> FALSE]
         ELSE MakeLinks(Tail(links), made \cup {Head(links)})

PrefixOf(made) ==
    [exists |-> TRUE,
     include |-> {l \in made : l.into = "include"},
     lib |-> {l \in made : l.into = "lib"}]

NoPrefix == [exists |-> FALSE, include |-> {}, lib |-> {}]

\* PrefixIsKept with the sense of --rebuild-prefix inverted
PrefixIsKeptInverted(b, pf) == pf.exists /\ b.rebuild_prefix

\* whether the stage returns at once (lines 184-188)
PrefixIsKept(b, pf) == pf.exists /\ ~b.rebuild_prefix

CreatePrefixDirectory ==
    /\ pc = "prefix"
    /\ IF PrefixIsKept(builder, prefix)
       THEN /\ pc' = "source"
            /\ UNCHANGED <<prefix, log>>
       ELSE \E links \in ScanLinks(deps) :
              LET r == MakeLinks(links, {})
                  removed == IF prefix.exists
                             THEN <<Event("rmtree", <<builder.prefix_path>>, <<>>, TRUE)>>
                             ELSE <<>>
              IN  /\ prefix' = PrefixOf(r.made)
                  /\ log' = log \o removed
                            \o <<Event("makedirs", <<builder.include_path>>, <<>>, TRUE),
                                 Event("makedirs", <<builder.lib_path>>, <<>>, TRUE),
                                 [Event("symlinks", <<>>, <<>>, r.ok) EXCEPT !.links = r.made]>>
                  /\ pc' = AfterCall(r.ok, "source")
    /\ UNCHANGED <<deps, cmakelists, dirs, files, builder, runs, at_start, declared>>

(***************************************************************************)
(* Builder._prepare_source.                                                *)
(***************************************************************************)
CloneArgs(b) == << <<"git">>, <<"clone">>, <<b.target.url>>, b.source_path >>

CheckoutArgs(b) == << <<"git">>, <<"checkout">>, b.checkout_commit >>

\* MustCheckout with the checkout nested under the clone
MustCheckoutAfterClone(b) == Truthy(b.checkout_commit) /\ ~DirExists(b.source_path)

\* whether the stage clones (line 210) and whether it checks out (line 214)
MustClone(b) == ~DirExists(b.source_path)
MustCheckout(b) == Truthy(b.checkout_commit)

PrepareSource ==
    /\ pc = "source"
    /\ \E clone_ok, checkout_ok \in BOOLEAN :
         LET clone == MustClone(builder)
             checkout == (clone => clone_ok) /\ MustCheckout(builder)
         IN  /\ ~clone => clone_ok
             /\ ~checkout => checkout_ok
             /\ dirs' = IF clone /\ clone_ok THEN dirs \cup {Norm(builder.source_path)} ELSE dirs
             /\ log' = log
                  \o (IF clone
                      THEN <<Event("check_call", CloneArgs(builder), builder.root_path, clone_ok)>>
                      ELSE <<>>)
                  \o (IF checkout
                      THEN <<Event("check_call", CheckoutArgs(builder), builder.source_path,
                                   checkout_ok)>>
                      ELSE <<>>)
             /\ pc' = AfterCall(clone_ok /\ checkout_ok, "cmake")
    /\ UNCHANGED <<deps, cmakelists, prefix, files, builder, runs, at_start, declared>>

(***************************************************************************)
(* Builder._generate_cmake.                                                *)
(***************************************************************************)
\* one -D<name>=<value> argument
CMakeDefine(opt) == <<"-D", opt[1], "=">> \o opt[2]

CMakeArgs(b) ==
    << <<"cmake">>,
       <<IF b.xcode THEN "-GXcode" ELSE "-GUnix Makefiles">>,
       <<"-DCMAKE_BUILD_TYPE=Release">>,
       <<"-DCMAKE_PREFIX_PATH=">> \o b.prefix_path >>
    \o (IF Truthy(b.sdk_path) THEN << <<"-DCMAKE_OSX_SYSROOT=">> \o b.sdk_path >> ELSE <<>>)
    \o [i \in 1..Len(b.target.cmake_options) |-> CMakeDefine(b.target.cmake_options[i])]
    \o <<b.source_path>>

GenerateCmake ==
    /\ pc = "cmake"
    /\ IF ~builder.generate
       THEN /\ pc' = "build"
            /\ UNCHANGED <<dirs, log>>
       ELSE \E cmake_ok \in BOOLEAN :
              /\ dirs' = dirs \cup {Norm(builder.build_path)}
              /\ log' = log
                   \o (IF DirExists(builder.build_path) THEN <<>>
                       ELSE <<Event("makedirs", <<builder.build_path>>, <<>>, TRUE)>>)
                   \o <<Event("check_call", CMakeArgs(builder), builder.build_path, cmake_ok)>>
              /\ pc' = AfterCall(cmake_ok, "build")
    /\ UNCHANGED <<deps, cmakelists, prefix, files, builder, runs, at_start, declared>>

(***************************************************************************)
(* Target._copy_moltenvk and Builder._build_target.                        *)
(***************************************************************************)
File(path, kind, target) ==
    [path |-> Norm(path), kind |-> kind, target |-> target, entries |-> {}]

\* dst_path of _copy_moltenvk before and after molten_lib is appended
MoltenDir(b) ==
    b.build_path \o (IF b.xcode THEN s_Debug \o <<Sep>> ELSE <<>>)
        \o b.target.name \o s_app_macos \o <<Sep>>

MoltenDst(b) == MoltenDir(b) \o molten_lib

\* the test of line 134
MoltenIsPlaced(b, fs, pf) == FileExists(fs, pf, b, MoltenDst(b))

\* _copy_moltenvk on the directories ds and files fs, with prefix pf
CopyMoltenVK(b, ds, fs, pf) ==
    LET src_path == b.lib_path \o molten_lib
        made == DirsBelow(b.build_path, MoltenDir(b)) \ ds
        mk == IF made = {} THEN <<>> ELSE <<Event("makedirs", <<MoltenDir(b)>>, <<>>, TRUE)>>
        ds1 == ds \cup made
    IN  IF MoltenIsPlaced(b, fs, pf)
        THEN [dirs |-> ds1, files |-> fs, ok |-> TRUE, events |-> mk]
        ELSE IF b.xcode
        THEN \* os.symlink raises when the name is taken
             IF HasEntry(fs, MoltenDst(b))
             THEN [dirs |-> ds1, files |-> fs, ok |-> FALSE,
                   events |-> mk \o <<Event("symlink", <<src_path, MoltenDst(b)>>, <<>>, FALSE)>>]
             ELSE [dirs |-> ds1, files |-> fs \cup {File(MoltenDst(b), "link", src_path)},
                   ok |-> TRUE,
                   events |-> mk \o <<Event("symlink", <<src_path, MoltenDst(b)>>, <<>>, TRUE)>>]
        ELSE \* shutil.copy raises when the source is missing
             IF ~PrefixLibHas(pf, molten_lib)
             THEN [dirs |-> ds1, files |-> fs, ok |-> FALSE,
                   events |-> mk \o <<Event("copy", <<src_path, MoltenDst(b)>>, <<>>, FALSE)>>]
             ELSE [dirs |-> ds1,
                   files |-> {f \in fs : f.path # Norm(MoltenDst(b))}
                                 \cup {File(MoltenDst(b), "file", <<>>)},
                   ok |-> TRUE,
                   events |-> mk \o <<Event("copy", <<src_path, MoltenDst(b)>>, <<>>, TRUE)>>]

\* what sysctl -n hw.ncpu prints
Jobs == {"4"}

BuildArgs(b, jobs) ==
    IF b.xcode THEN << <<"open">>, b.target.name \o s_xcodeproj >>
    ELSE << <<"make">>, <<"-j">>, <<jobs>> >>

BundlePath(b) == b.build_path \o b.target.name \o s_app

\* what a successful make leaves in the build directory: the application bundle
BundleDirs(b) ==
    {Norm(BundlePath(b)),
     Norm(BundlePath(b) \o <<Sep>> \o s_Contents),
     Norm(BundlePath(b) \o <<Sep>> \o s_Contents \o <<Sep>> \o s_MacOS)}

BundleExecutable(b) ==
    File(BundlePath(b) \o <<Sep>> \o s_Contents \o <<Sep>> \o s_MacOS \o <<Sep>> \o b.target.name,
         "file", <<>>)

\* HasPostBuild with the hook never called
NoPostBuild(b) == FALSE

\* whether _build_target runs the post-build hook (line 254)
HasPostBuild(b) == b.target.post_build # "None"

BuildTarget ==
    /\ pc = "build"
    /\ \E query_ok, build_ok \in BOOLEAN, jobs \in Jobs :
         LET query == IF builder.xcode THEN <<>>
                      ELSE <<Event("check_output", << <<"sysctl">>, <<"-n">>, <<"hw.ncpu">> >>,
                                   <<>>, query_ok)>>
             \* subprocess raises before it runs a command whose cwd is missing
             started == query_ok /\ DirExists(builder.build_path)
             built == started /\ build_ok
             ds1 == IF built /\ ~builder.xcode THEN dirs \cup BundleDirs(builder) ELSE dirs
             fs1 == IF built /\ ~builder.xcode /\ ~HasEntry(files, BundleExecutable(builder).path)
                    THEN files \cup {BundleExecutable(builder)}
                    ELSE files
             hook == IF built /\ HasPostBuild(builder)
                     THEN CopyMoltenVK(builder, ds1, fs1, prefix)
                     ELSE [dirs |-> ds1, files |-> fs1, ok |-> TRUE, events |-> <<>>]
         IN  /\ builder.xcode => query_ok
             /\ ~started => build_ok
             /\ dirs' = hook.dirs
             /\ files' = hook.files
             /\ log' = log \o query
                  \o (IF started
                      THEN <<Event("check_call", BuildArgs(builder, jobs), builder.build_path,
                                   build_ok)>>
                      ELSE <<>>)
                  \o hook.events
             /\ pc' = AfterCall(built /\ hook.ok, "package")
    /\ UNCHANGED <<deps, cmakelists, prefix, builder, runs, at_start, declared>>

(***************************************************************************)
(* Builder._make_package.                                                  *)
(***************************************************************************)
\* PackageIsSkipped without the test of --xcode
PackageIsSkippedUnlessAsked(b) == ~b.create_package

\* whether the stage returns at once (line 258)
PackageIsSkipped(b) == ~b.create_package \/ b.xcode

PackagePath(b, version) ==
    b.build_path \o b.target.name \o <<"-">> \o version \o s_tar_bz2

\* the names TarFile.add gives to gettarinfo for the tree at bundle_path: the
\* path itself, and os.path.join(name, f) for what lies below it
Members(bundle_path, ds, fs) ==
    LET root == Norm(bundle_path)
        below(q) == IsPrefixOf(root \o <<Sep>>, q)
    IN  {[name |-> bundle_path, type |-> "dir"]}
        \cup {[name |-> bundle_path \o Slice(d, Len(root)), type |-> "dir"] :
                d \in {q \in ds : below(q)}}
        \cup {[name |-> bundle_path \o Slice(f.path, Len(root)), type |-> f.kind] :
                f \in {g \in fs : below(g.path)}}

\* TarFile.gettarinfo: the archive name loses its leading separators, and the
\* owner is the one the file has on disk
GetTarInfo(member, user) ==
    [name |-> LStripSep(member.name), type |-> member.type,
     uid |-> user.uid, gid |-> user.gid, uname |-> user.uname, gname |-> user.gname]

\* tar_filter (lines 269-273)
TarFilter(tarinfo, name_pos) ==
    [tarinfo EXCEPT !.name = Slice(tarinfo.name, name_pos),
                    !.uname = "root", !.gname = "root", !.uid = 0, !.gid = 0]

\* name_pos (line 264)
NamePos(b) == Len(b.build_path) - 1

\* the entries package.add(bundle_path, filter=tar_filter) writes
PackageEntries(b, ds, fs, user) ==
    {TarFilter(GetTarInfo(m, user), NamePos(b)) : m \in Members(BundlePath(b), ds, fs)}

\* who runs build.py, and so owns what make leaves behind
Users ==
    {[uid |-> 501, gid |-> 20, uname |-> "alexey", gname |-> "staff"],
     [uid |-> 0, gid |-> 0, uname |-> "root", gname |-> "wheel"]}

\* what git describe --tags prints
Versions == {<<"g", "4", ".", "5">>}

MakePackage ==
    /\ pc = "package"
    /\ IF PackageIsSkipped(builder)
       THEN /\ pc' = "done"
            /\ UNCHANGED <<files, log>>
       ELSE \E describe_ok \in BOOLEAN, version \in Versions, user \in Users :
              LET describe == Event("check_output", << <<"git">>, <<"describe">>, <<"--tags">> >>,
                                    builder.source_path, describe_ok)
                  package_path == PackagePath(builder, version)
                  old == HasEntry(files, package_path)
                  \* TarFile.add raises when there is no bundle to add
                  found == DirExists(BundlePath(builder))
                  archive == [File(package_path, "archive", <<>>) EXCEPT !.entries =
                                IF found THEN PackageEntries(builder, dirs, files, user) ELSE {}]
              IN  IF AfterCall(describe_ok, "tar") = "failed"
                  THEN /\ user = CHOOSE u \in Users : TRUE
                       /\ files' = files
                       /\ log' = log \o <<describe>>
                       /\ pc' = "failed"
                  ELSE /\ files' = {f \in files : f.path # Norm(package_path)} \cup {archive}
                       /\ log' = log \o <<describe>>
                            \o (IF old THEN <<Event("remove", <<package_path>>, <<>>, TRUE)>>
                                ELSE <<>>)
                            \o <<Event("tar", <<package_path, BundlePath(builder)>>, <<>>, found)>>
                       /\ pc' = AfterCall(found, "done")
    /\ UNCHANGED <<deps, cmakelists, prefix, dirs, builder, runs, at_start, declared>>

(***************************************************************************)
(* Invocations: Builder(sys.argv[1:]).run().                               *)
(***************************************************************************)
NoStart == [prefix |-> NoPrefix, dirs |-> {}, files |-> {}]

NoBuilder == Construct([target |-> None, source_path |-> None, xcode |-> FALSE,
                        checkout_commit |-> None, build_path |-> None, sdk_path |-> None,
                        skip_generate |-> FALSE, create_package |-> FALSE,
                        rebuild_prefix |-> FALSE], <<>>)[2]

\* Builder.__init__ on one of the command lines A; run() starts when it returns
Invoke(A) ==
    /\ pc = "idle"
    /\ \E args \in A :
         LET made == Construct(args, cmakelists)
         IN  /\ builder' = made[2]
             /\ pc' = IF made[1] THEN "prefix" ELSE "rejected"
    /\ log' = <<>>
    /\ runs' = runs + 1
    /\ at_start' = [prefix |-> prefix, dirs |-> dirs, files |-> files]
    /\ UNCHANGED <<deps, cmakelists, prefix, dirs, files, declared>>

\* the entries of <root>/deps
e_AL == <<"A", "L">>
e_MoltenVK == <<"M", "V", "K">>
e_openal == <<"l", "i", "b", "o", "p", "e", "n", "a", "l", ".", "a">>
e_pkgconfig == <<"p", "k", "g", "c", "o", "n", "f", "i", "g">>
e_sndfile == <<"s", "n", "d", "f", "i", "l", "e", ".", "h">>

Dep(name, is_dir, has_include, has_lib, include, lib) ==
    [name |-> name, is_dir |-> is_dir, has_include |-> has_include, has_lib |-> has_lib,
     include |-> include, lib |-> lib]

d_moltenvk == Dep("moltenvk", TRUE, TRUE, TRUE, {e_MoltenVK}, {molten_lib})
d_openal == Dep("openal", TRUE, TRUE, TRUE, {e_AL}, {e_openal, e_pkgconfig})
d_sndfile == Dep("sndfile", TRUE, TRUE, TRUE, {e_sndfile}, {e_pkgconfig})
d_readme == Dep("README.md", FALSE, FALSE, FALSE, {}, {})
d_nolib == Dep("cmake", TRUE, TRUE, FALSE, {e_sndfile}, {})
d_noinclude == Dep("bin", TRUE, FALSE, TRUE, {}, {e_openal})

DepsLayouts ==
    {{d_moltenvk, d_openal, d_readme, d_nolib, d_noinclude},
     {d_moltenvk, d_openal, d_sndfile},
     {d_openal, d_readme, d_nolib}}

v_commit == <<"g", "4", ".", "5">>

\* the targets the invocations of the pipeline model build: one with a
\* post-build hook and one without
RunTargets == {gzdoom, raze}

RunArgs ==
    [target : RunTargets, source_path : {None}, xcode : BOOLEAN,
     checkout_commit : {None, v_commit}, build_path : {None}, sdk_path : {None},
     skip_generate : BOOLEAN, create_package : BOOLEAN, rebuild_prefix : BOOLEAN]

NewRun == runs < MaxRuns /\ Invoke(RunArgs)

\* the process ends, by the return of run() or by the exception that left it
Exit ==
    /\ pc \in {"done", "failed", "rejected"}
    /\ pc' = "idle"
    /\ builder' = NoBuilder
    /\ log' = <<>>
    /\ at_start' = NoStart
    /\ UNCHANGED <<deps, cmakelists, prefix, dirs, files, runs, declared>>

Init ==
    /\ deps \in DepsLayouts
    /\ cmakelists = <<>>
    /\ prefix = NoPrefix
    /\ dirs = {}
    /\ files = {}
    /\ builder = NoBuilder
    /\ pc = "idle"
    /\ log = <<>>
    /\ runs = 0
    /\ at_start = NoStart
    /\ declared = <<>>

Next ==
    \/ NewRun
    \/ CreatePrefixDirectory
    \/ PrepareSource
    \/ GenerateCmake
    \/ BuildTarget
    \/ MakePackage
    \/ Exit

Spec == Init /\ [][Next]_vars

(***************************************************************************)
(* Invocations with --source-path: CMakeLists.txt files to detect from.    *)
(***************************************************************************)
zdoom == <<"z", "d", "o", "o", "m">>

\* a name with the letters at the positions caps in upper case
WithCaps(base, caps) ==
    [i \in 1..Len(base) |-> IF i \in caps THEN UpperChar(base[i]) ELSE base[i]]

Declaration(base, caps, style) ==
    [kind |-> "project", base |-> base, caps |-> caps, style |-> style, text |-> <<>>]

Other(text) == [kind |-> "other", base |-> <<>>, caps |-> {}, style |-> 0, text |-> text]

\* the line a description stands for, as readlines() returns it
Render(d) ==
    IF d.kind = "other" THEN d.text
    ELSE LET name == WithCaps(d.base, d.caps)
         IN  CASE d.style = 1 -> s_project \o <<"(">> \o name \o <<")", "\n">>
               [] d.style = 2 ->
                    <<"P", "R", "O", "J", "E", "C", "T", " ", "(", " ">> \o name
                        \o <<" ", ")", "\n">>
               [] d.style = 3 ->
                    <<" ", " ", "P", "r", "o", "j", "e", "c", "t", "\t", "(">> \o name
                        \o <<")", " ", "#", "x", "\n">>
               [] d.style = 4 ->
                    <<"s", "u", "b">> \o s_project \o <<"(">> \o name \o <<")", "\n">>

\* lines that declare no project to the pattern
OtherLines ==
    {Other(<<"#", " ">> \o s_project \o <<" ">> \o gzdoom \o <<"\n">>),
     Other(<<"s", "e", "t", "(">> \o s_project \o <<")", "\n">>),
     Other(s_project \o <<"(">> \o raze \o <<" ", "C", ")", "\n">>),
     Other(s_project \o <<"(", ")", "\n">>)}

\* the lines the longer files are made of
PoolLines ==
    OtherLines \cup {Declaration(gzdoom, {}, 1), Declaration(raze, {1}, 2),
                     Declaration(zdoom, {1, 2}, 1)}

DeclaredFiles ==
    {<<Declaration(base, caps, 1)>> :
        base \in TargetNames \cup {zdoom}, caps \in SUBSET (1..6)}
    \cup {<<Declaration(base, caps, style)>> :
            base \in TargetNames \cup {zdoom}, caps \in {{}, {1}, {2, 4}}, style \in 2..4}
    \cup UNION {[1..n -> PoolLines] : n \in 0..MaxLines}

p_src == <<"/", "s">>

DetectArgs ==
    [target : {None}, source_path : {p_src}, xcode : BOOLEAN,
     checkout_commit : {None}, build_path : {None}, sdk_path : {None},
     skip_generate : {FALSE}, create_package : {FALSE}, rebuild_prefix : {FALSE}]

NewRunDetect == runs = 0 /\ Invoke(DetectArgs)

InitDetect ==
    /\ deps = {d_moltenvk, d_openal, d_readme, d_nolib, d_noinclude}
    /\ declared \in DeclaredFiles
    /\ cmakelists = [i \in 1..Len(declared) |-> Render(declared[i])]
    /\ prefix = NoPrefix
    /\ dirs = {Norm(p_src)}
    /\ files = {}
    /\ builder = NoBuilder
    /\ pc = "idle"
    /\ log = <<>>
    /\ runs = 0
    /\ at_start = NoStart

NextDetect ==
    \/ NewRunDetect
    \/ CreatePrefixDirectory
    \/ PrepareSource
    \/ GenerateCmake
    \/ BuildTarget
    \/ MakePackage
    \/ Exit

SpecDetect == InitDetect /\ [][NextDetect]_vars

(***************************************************************************)
(* Invocations with --create-package and --build-path.                     *)
(***************************************************************************)
p_abs == <<"/", "x", "/", "o", "u", "t">>
p_rel == <<"o", "u", "t">>

BuildPathArgs ==
    {None, p_abs, p_abs \o <<Sep>>, p_rel, <<".", Sep>> \o p_rel, <<Sep>> \o p_abs}

PackageArgs ==
    [target : TargetNames, source_path : {None}, xcode : {FALSE},
     checkout_commit : {None}, build_path : BuildPathArgs, sdk_path : {None, p_abs},
     skip_generate : {FALSE}, create_package : BOOLEAN, rebuild_prefix : {FALSE}]

NewRunPackage == runs = 0 /\ Invoke(PackageArgs)

InitPackage ==
    /\ deps \in {{d_moltenvk, d_openal, d_readme, d_nolib, d_noinclude}}
    /\ cmakelists = <<>>
    /\ prefix = NoPrefix
    /\ dirs = {}
    /\ files = {}
    /\ builder = NoBuilder
    /\ pc = "idle"
    /\ log = <<>>
    /\ runs = 0
    /\ at_start = NoStart
    /\ declared = <<>>

NextPackage ==
    \/ NewRunPackage
    \/ CreatePrefixDirectory
    \/ PrepareSource
    \/ GenerateCmake
    \/ BuildTarget
    \/ MakePackage
    \/ Exit

SpecPackage == InitPackage /\ [][NextPackage]_vars

(***************************************************************************)
(* What the log of an invocation says.                                     *)
(***************************************************************************)
IsExternal(e) == e.op \in {"check_call", "check_output"}

\* the command or the filesystem operation of an event
Kind(e) ==
    IF ~IsExternal(e) THEN e.op
    ELSE IF e.args[1] = <<"git">> THEN "git " \o e.args[2][1]
    ELSE e.args[1][1]

Kinds(l) == [i \in 1..Len(l) |-> Kind(l[i])]

Issued(kind) == \E i \in 1..Len(log) : Kind(log[i]) = kind

Running == pc \notin {"idle", "rejected"}

\* the invocation has left the prefix stage, by its return or by its exception
PrefixStageOver ==
    /\ Running
    /\ pc # "prefix"

\* the invocation has left the source stage, by its return or by its exception
SourceStageOver ==
    /\ PrefixStageOver
    /\ pc # "source"
    /\ ~(pc = "failed" /\ log # <<>> /\ log[Len(log)].op = "symlinks")

Archives(fs) == {f \in fs : f.kind = "archive"}

AllExternalOK == \A i \in 1..Len(log) : IsExternal(log[i]) => log[i].ok

(***************************************************************************)
(* C1: a run for --target gzdoom, without --xcode and --skip-generate, that *)
(* finds no prefix, no source directory and no build directory, creates    *)
(* the prefix, clones, generates with every option of the target as a      *)
(* define, runs make and then places libMoltenVK.dylib in the bundle, in   *)
(* this order, each step only after the one before it has succeeded.       *)
(***************************************************************************)
C1_Case ==
    /\ Running
    /\ builder.target.name = gzdoom
    /\ ~builder.xcode
    /\ builder.generate
    /\ ~at_start.prefix.exists
    /\ Norm(builder.source_path) \notin at_start.dirs
    /\ Norm(builder.build_path) \notin at_start.dirs

C1_Expected ==
    <<"makedirs", "makedirs", "symlinks", "git clone">>
    \o (IF Truthy(builder.checkout_commit) THEN <<"git checkout">> ELSE <<>>)
    \o <<"makedirs", "cmake", "sysctl", "make", "copy">>

C1_Placed ==
    /\ HasEntry(files, MoltenDst(builder))
    /\ EntryAt(files, MoltenDst(builder)).kind = "file"
    /\ MoltenDst(builder) =
         RootPath \o s_build \o <<Sep>> \o gzdoom \o <<Sep>> \o s_make \o <<Sep>>
             \o gzdoom \o s_app_macos \o <<Sep>> \o molten_lib

C1_Defines ==
    \A i \in 1..Len(log) :
        Kind(log[i]) = "cmake" =>
            /\ Len(builder.target.cmake_options) = 7
            /\ \A k \in 1..Len(builder.target.cmake_options) :
                 \E j \in 1..Len(log[i].args) :
                     /\ Len(log[i].args[j]) > 3
                     /\ log[i].args[j][1] = "-D"
                     /\ log[i].args[j][2] = builder.target.cmake_options[k][1]
                     /\ log[i].args[j][3] = "="
                     /\ Slice(log[i].args[j], 3) = builder.target.cmake_options[k][2]
            /\ \E k \in 1..Len(builder.target.cmake_options) :
                 builder.target.cmake_options[k][1] = "CMAKE_EXE_LINKER_FLAGS"

C1_Order ==
    C1_Case =>
        LET n == IF Len(log) < Len(C1_Expected) THEN Len(log) ELSE Len(C1_Expected)
        IN  /\ SubSeq(Kinds(log), 1, n) = SubSeq(C1_Expected, 1, n)
            /\ \A i \in 1..(n - 1) : log[i].ok
            /\ C1_Defines
            /\ pc \in {"package", "done"} =>
                 /\ n = Len(C1_Expected)
                 /\ \A i \in 1..n : log[i].ok
                 /\ C1_Placed
            /\ (pc = "failed" /\ AllExternalOK) =>
                 \/ log[Len(log)].op = "symlinks"
                 \/ log[Len(log)].op = "copy" /\ ~PrefixLibHas(prefix, molten_lib)

C1_Witness ==
    /\ C1_Case
    /\ pc = "package"
    /\ C1_Placed
    /\ Kinds(log) = C1_Expected

(***************************************************************************)
(* C2: a command that exits non-zero is the last thing its invocation      *)
(* does: it is not issued again, nothing follows it, the invocation has    *)
(* failed, and the step that fails leaves what the earlier stages built.   *)
(***************************************************************************)
C2_FailedIsLast ==
    \A i \in 1..Len(log) :
        (IsExternal(log[i]) /\ ~log[i].ok) => (i = Len(log) /\ pc = "failed")

C2_NothingUndone ==
    (pc # "failed" /\ pc' = "failed") =>
        /\ dirs \subseteq dirs'
        /\ files \subseteq files'
        /\ pc # "prefix" => prefix' = prefix
        /\ IsPrefixOf(log, log')

C2_Abort == [][C2_FailedIsLast' /\ C2_NothingUndone]_vars

C2_Witness ==
    /\ pc = "failed"
    /\ HasPostBuild(builder)
    /\ builder.create_package
    /\ Len(log) > 4
    /\ Kind(log[Len(log)]) = "make"
    /\ ~log[Len(log)].ok
    /\ prefix.exists
    /\ Norm(builder.source_path) \in dirs

(***************************************************************************)
(* C3: with --xcode the packaging stage does nothing: no git describe, no  *)
(* removal and no archive, with --create-package or without; an archive is *)
(* written only with --create-package and without --xcode.                 *)
(***************************************************************************)
C3_PackagingIssued == Issued("git describe") \/ Issued("remove") \/ Issued("tar")

C3_NoPackageInXcode ==
    Running =>
        /\ builder.xcode => (~C3_PackagingIssued /\ Archives(files) = Archives(at_start.files))
        /\ (Issued("tar") \/ Archives(files) # Archives(at_start.files)) =>
               (builder.create_package /\ ~builder.xcode)

C3_Witness ==
    /\ pc = "done"
    /\ builder.xcode
    /\ builder.create_package

(***************************************************************************)
(* C4: prefix preparation without --rebuild-prefix mutates the filesystem  *)
(* only when it finds no prefix: it then leaves a prefix behind, and the   *)
(* next preparation, finding it, removes, creates and links nothing and    *)
(* leaves the prefix as it was.                                            *)
(***************************************************************************)
C4_IsPrefixEvent(e) ==
    \/ e.op \in {"rmtree", "symlinks"}
    \/ e.op = "makedirs" /\ e.args[1] \in {builder.include_path, builder.lib_path}

C4_Idempotent ==
    PrefixStageOver =>
        /\ prefix.exists
        /\ (at_start.prefix.exists /\ ~builder.rebuild_prefix) =>
             /\ prefix = at_start.prefix
             /\ \A i \in 1..Len(log) : ~C4_IsPrefixEvent(log[i])
        /\ ~at_start.prefix.exists =>
             /\ Len(log) >= 3
             /\ SubSeq(Kinds(log), 1, 3) = <<"makedirs", "makedirs", "symlinks">>

C4_Witness ==
    /\ runs = 2
    /\ pc = "source"
    /\ ~builder.rebuild_prefix
    /\ at_start.prefix.exists
    /\ prefix = at_start.prefix
    /\ log = <<>>

(***************************************************************************)
(* C9: the source stage clones exactly when it finds no source directory, *)
(* checks out exactly when a commit was asked for (and the clone, if any,  *)
(* succeeded), after the clone when it does both, and issues no command    *)
(* when the directory is there and no commit was asked for.                *)
(***************************************************************************)
C9_Position(kind) == CHOOSE i \in 1..Len(log) : Kind(log[i]) = kind

C9_SourcePreparation ==
    SourceStageOver =>
        LET existed == Norm(builder.source_path) \in at_start.dirs
            asked == Truthy(builder.checkout_commit)
        IN  /\ Issued("git clone") <=> ~existed
            /\ Issued("git checkout") <=>
                 (asked /\ (Issued("git clone") => log[C9_Position("git clone")].ok))
            /\ (Issued("git clone") /\ Issued("git checkout")) =>
                 C9_Position("git checkout") = C9_Position("git clone") + 1
            /\ Issued("git clone") =>
                 log[C9_Position("git clone")].args = CloneArgs(builder)
            /\ Issued("git checkout") =>
                 /\ log[C9_Position("git checkout")].args[3] = builder.checkout_commit
                 /\ log[C9_Position("git checkout")].cwd = builder.source_path
            /\ Cardinality({i \in 1..Len(log) : Kind(log[i]) \in {"git clone", "git checkout"}})
                 <= 2

C9_Witness ==
    /\ pc = "cmake"
    /\ Issued("git clone")
    /\ Issued("git checkout")
    /\ runs = 1

C9_WitnessExisting ==
    /\ pc = "cmake"
    /\ Norm(builder.source_path) \in at_start.dirs
    /\ Issued("git checkout")

(***************************************************************************)
(* C5: when the bundle already holds an entry named libMoltenVK.dylib, a   *)
(* file or a symbolic link, dangling or not, _copy_moltenvk neither copies *)
(* nor links and does not fail.                                            *)
(***************************************************************************)
C5_PlacementIdempotent ==
    (Running /\ HasPostBuild(builder) /\ HasEntry(at_start.files, MoltenDst(builder))) =>
        \A i \in 1..Len(log) : log[i].op \notin {"copy", "symlink"}

(***************************************************************************)
(* C6: a rebuild of the prefix skips what in deps is no directory or lacks *)
(* include or lib, and links exactly the entries of include and lib of the *)
(* other dependencies.                                                     *)
(***************************************************************************)
C6_Complete(d) == d.is_dir /\ d.has_include /\ d.has_lib

\* one link for every entry of include and of lib of the complete dependencies
C6_AllLinks ==
    UNION {{[into |-> "include", dep |-> d.name, name |-> n] : n \in d.include}
             \cup {[into |-> "lib", dep |-> d.name, name |-> n] : n \in d.lib} :
           d \in {x \in deps : C6_Complete(x)}}

C6_Collision ==
    \E a, b \in C6_AllLinks : a # b /\ a.into = b.into /\ a.name = b.name

C6_Rebuilt == PrefixStageOver /\ Issued("symlinks")

C6_Made == prefix.include \cup prefix.lib

\* whether the loop of os.symlink calls of this invocation ran to its end
C6_LinkedAll == log[CHOOSE i \in 1..Len(log) : Kind(log[i]) = "symlinks"].ok

\* the claim as it stands
C6_ExactlyAllLinks == C6_Rebuilt => C6_Made = C6_AllLinks

\* as amended: exactly those links unless two of them share a name, in which
\* case os.symlink raises and the links made are only some of them
C6_LinksOfCompleteDeps ==
    C6_Rebuilt =>
        /\ C6_Made \subseteq C6_AllLinks
        /\ \A a, b \in C6_Made : (a.into = b.into /\ a.name = b.name) => a = b
        /\ \A d \in deps : ~C6_Complete(d) => ~\E l \in C6_Made : l.dep = d.name
        /\ ~C6_Collision => (C6_Made = C6_AllLinks /\ C6_LinkedAll)
        /\ C6_Collision => (C6_Made # C6_AllLinks /\ ~C6_LinkedAll /\ pc = "failed")

C6_Witness ==
    /\ C6_Rebuilt
    /\ pc = "source"
    /\ \E d \in deps : d.is_dir /\ ~d.has_lib /\ d.include # {}
    /\ \E d \in deps : ~d.is_dir
    /\ C6_Made = C6_AllLinks
    /\ C6_Made # {}

(***************************************************************************)
(* C10: an invocation that starts source preparation or build-file         *)
(* generation has a complete prefix: every entry of include and lib of     *)
(* every complete dependency is linked.                                    *)
(***************************************************************************)
C10_PrefixComplete ==
    (Running /\ pc \in {"source", "cmake"}) =>
        (prefix.exists /\ C6_AllLinks \subseteq C6_Made)

(***************************************************************************)
(* C7: with --source-path the target is the registered one named by the    *)
(* lower-cased name of the first line of CMakeLists.txt that matches the   *)
(* project pattern, in whatever case the name is written; without such a   *)
(* line, or when that name is not registered, construction fails and no    *)
(* stage runs, whatever later lines declare.                               *)
(***************************************************************************)
C7_HasDeclaration == \E i \in 1..Len(declared) : declared[i].kind = "project"

C7_First ==
    declared[CHOOSE i \in 1..Len(declared) :
                 /\ declared[i].kind = "project"
                 /\ \A j \in 1..(i - 1) : declared[j].kind # "project"]

C7_Url(name) ==
    CASE name = gzdoom -> "https://github.com/coelckers/gzdoom.git"
      [] name = qzdoom -> "https://github.com/madame-rachelle/qzdoom.git"
      [] name = lzdoom -> "https://github.com/drfrag666/gzdoom.git"
      [] name = raze -> "https://github.com/coelckers/Raze.git"

C7_Detection ==
    pc # "idle" =>
        IF C7_HasDeclaration /\ C7_First.base \in {gzdoom, qzdoom, lzdoom, raze}
        THEN /\ pc # "rejected"
             /\ builder.target.name = C7_First.base
             /\ builder.target.url = C7_Url(C7_First.base)
             /\ builder.source_path = p_src \o <<Sep>>
        ELSE /\ pc = "rejected"
             /\ log = <<>>
             /\ prefix = NoPrefix /\ dirs = {Norm(p_src)} /\ files = {}

C7_Witness ==
    /\ pc = "cmake"
    /\ Len(declared) = 3
    /\ declared[1].kind = "other"
    /\ declared[2] = Declaration(raze, {1}, 2)
    /\ declared[3] = Declaration(zdoom, {1, 2}, 1)
    /\ builder.target.name = raze

C7_WitnessRejected ==
    /\ pc = "rejected"
    /\ Len(declared) = 2
    /\ declared[1] = Declaration(zdoom, {1, 2}, 1)
    /\ declared[2] = Declaration(gzdoom, {}, 1)

(***************************************************************************)
(* C8: every entry of the archive is named by the path of its file         *)
(* relative to the build directory, <target>.app/..., whatever the build   *)
(* path, and is owned by root, uid 0 and gid 0.                            *)
(***************************************************************************)
\* the path of a file of the build directory relative to that directory
C8_Relative(b, q) ==
    IF Norm(b.build_path) = <<Sep>> THEN Slice(q, 1)
    ELSE Slice(q, Len(Norm(b.build_path)) + 1)

C8_Bundled(b) ==
    {q \in dirs \cup {f.path : f \in files} : IsPrefixOf(Norm(BundlePath(b)), q)}

C8_EntryNames ==
    \A v \in Versions :
        (pc = "done" /\ builder.create_package /\ ~builder.xcode) =>
            /\ HasEntry(files, PackagePath(builder, v))
            /\ LET entries == EntryAt(files, PackagePath(builder, v)).entries
               IN  /\ {e.name : e \in entries} =
                        {C8_Relative(builder, q) : q \in C8_Bundled(builder)}
                   /\ \A e \in entries :
                        /\ e.name # <<>> /\ e.name[1] # Sep
                        /\ IsPrefixOf(builder.target.name \o s_app, e.name)
                        /\ e.uid = 0 /\ e.gid = 0
                        /\ e.uname = "root" /\ e.gname = "root"

\* the same for the build paths that are absolute and start with one separator
C8_EntryNamesOfAbsolutePaths ==
    (builder.build_path[1] = Sep /\ builder.build_path[2] # Sep) => C8_EntryNames

C8_WitnessAbsolute ==
    /\ pc = "done" /\ builder.create_package
    /\ builder.build_path = p_abs \o <<Sep, Sep>>
    /\ \E f \in Archives(files) : Cardinality(f.entries) = 5

====
